---------------------------- MODULE Spec2Model ----------------------------
(***************************************************************************)
(* A model of lib/ArtifactoryAPI.js: a promise-returning client of the     *)
(* Artifactory REST API.  One call of the client is in progress at a time; *)
(* the server's answers (transport error, status code, body) are the       *)
(* nondeterministic inputs of the callbacks.                               *)
(*                                                                         *)
(* A promise is a record [state, value] with state "pending", "resolved"   *)
(* or "rejected".  An exception thrown inside a callback of the request    *)
(* library, of a stream or of md5File is not caught by any promise: it is  *)
(* recorded in `uncaught` and no later callback of the call runs.          *)
(***************************************************************************)
EXTENDS Naturals, Sequences, FiniteSets, TLC

\* ------------------------------------------------------------------ bounds
MaxPathLen == 2
MaxChildren == 2

\* ------------------------------------------------------------------ inputs
Chars == {"a", "/"}
Paths == UNION {[1..n -> Chars] : n \in 0..MaxPathLen}
Repos == {"r1", "r2"}
Tristate == {"undefined", "false", "true"}
Statuses == {200, 201, 204, 404, 500}
Contents == {"c1", "c2"}
Digests == {"d1", "d2"}

\* the constructor's arguments (lines 41-44), never written afterwards
url_ == "http://artifactory"
basicHttpAuth_ == "dXNlcjpwYXNzd29yZA=="

\* ----------------------------------------------------------- JSON payloads
\* A parsed body.  hasChildren / hasChecksums tell whether the property is
\* present at all (an absent property reads as undefined).
EmptyObject ==
    [hasChildren |-> FALSE, children |-> <<>>, hasChecksums |-> FALSE, md5 |-> "none"]
\* children of a folder listing: a file "/a", a file "b" (no separator in its
\* uri), a sub-folder "/a" and an entry without uri
Items ==
    {[uri |-> <<"/", "a">>, folder |-> FALSE], [uri |-> <<"b">>, folder |-> FALSE], [uri |-> <<"/", "a">>, folder |-> TRUE], [uri |-> <<>>, folder |-> FALSE]}
ChildLists == UNION {[1..n -> Items] : n \in 0..MaxChildren}
FolderInfos ==
    {EmptyObject} \cup {[EmptyObject EXCEPT !.hasChildren = TRUE, !.children = c] : c \in ChildLists}
FileInfos ==
    {EmptyObject} \cup {[EmptyObject EXCEPT !.hasChecksums = TRUE, !.md5 = d] : d \in Digests}

BodiesOf(vals) ==
    {[kind |-> "empty"], [kind |-> "malformed"]} \cup {[kind |-> "json", val |-> v] : v \in vals}
ResponsesOf(vals) ==
    {[error |-> TRUE]} \cup [error : {FALSE}, statusCode : Statuses, body : BodiesOf(vals)]

\* JSON.parse of a response body: an empty or malformed text throws
JSON_parse(body) ==
    IF body.kind = "json" THEN [ok |-> TRUE, val |-> body.val] ELSE [ok |-> FALSE]
\* `response.body ? ... : ...`: the empty string is falsy
BodyTruthy(body) == body.kind # "empty"
\* `x || false` of an optional boolean argument
OrFalse(x) == x = "true"

\* ------------------------------------------------------------- promises
Pending == [state |-> "pending"]
NotStarted == [state |-> "none"]
Resolved(v) == [state |-> "resolved", value |-> v]
Rejected(v) == [state |-> "rejected", value |-> v]
Thrown(e) == [state |-> "thrown", value |-> [kind |-> e]]
Settled(p) == p.state \in {"resolved", "rejected"}
\* a promise whose value nobody reads (.finally() passes nothing on): how it
\* settled, without the payload
Outcome(p) == [state |-> p.state, kind |-> p.value.kind]

\* ------------------------------------------------------ paths and requests
EndsWithSlash(p) == Len(p) > 0 /\ p[Len(p)] = "/"

\* a variant that appends the separator without looking at the last character
EnsureTrailingSlash_always(remotePath) == remotePath \o <<"/">>

\* `if (remotePath[remotePath.length - 1] !== '/') remotePath += '/'`
EnsureTrailingSlash(remotePath) ==
    IF ~EndsWithSlash(remotePath) THEN remotePath \o <<"/">> ELSE remotePath

\* ArtifactoryAPI.ACTIONS rendered by _.template
ACTIONS_filePath(repoKey, filePath) == <<"/", repoKey, "/">> \o filePath
ACTIONS_getFileInfo(repoKey, filePath) == <<"/api/storage/", repoKey, "/">> \o filePath
ACTIONS_downloadFolder(repoKey, path) == <<"/api/archive/download/", repoKey, "/">> \o path
ACTIONS_moveIem(srcRepoKey, srcFilePath, dstRepoKey, dstFilePath) ==
    <<"/api/move/", srcRepoKey, "/">> \o srcFilePath \o <<"?to=/", dstRepoKey, "/">> \o dstFilePath

getRequestOptions(actionPath, params) ==
    [url |-> <<url_>> \o actionPath, Authorization |-> <<"Basic ", basicHttpAuth_>>, strictSSL |-> FALSE, qs |-> params]

Request(method, options) == [method |-> method] @@ options

VARIABLES call, pc, requests, promise, inner, uncaught, disk, history

vars == <<call, pc, requests, promise, inner, uncaught, disk, history>>

NoCall == [op |-> "none"]
NoInner ==
    [isPathExists |-> NotStarted, getFileInfo |-> NotStarted, createFolder |-> NotStarted, moves |-> <<>>, filesToMove |-> <<>>]
NoDisk == [state |-> "absent"]
\* what the server answered, kept for the properties: the status of the HEAD,
\* of the upload's PUT and of the download's GET (0 none yet, 1 transport
\* error), the index of the first move to fail, and whether a request of the
\* operation itself (the folder pre-creation of a move is not one) ended with
\* no response or with a status other than the one its callback takes for success
NoHistory == [head |-> 0, put |-> 0, get |-> 0, firstRejected |-> 0, failed |-> FALSE]

Init ==
    /\ call = NoCall
    /\ pc = "idle"
    /\ requests = <<>>
    /\ promise = NotStarted
    /\ inner = NoInner
    /\ uncaught = "none"
    /\ disk = NoDisk
    /\ history = NoHistory

\* what every call starts from
Begin(c) ==
    /\ pc = "idle"
    /\ call' = c
    /\ uncaught' = "none"
    /\ disk' = NoDisk
    /\ history' = NoHistory

\* an exception escapes a callback: the promise stays as it is
Crash(e) ==
    /\ pc' = "crashed"
    /\ uncaught' = e

\* the returned promise settles and nothing of the call is left in flight
Settle(p) ==
    /\ pc' = "settled"
    /\ promise' = p

\* ------------------------------------------------------------ getFileInfo
getFileInfo_request(repoKey, remotefilePath) ==
    Request("GET", getRequestOptions(ACTIONS_getFileInfo(repoKey, remotefilePath), "none"))

getFileInfo_cb(response) ==
    IF response.error THEN Rejected([kind |-> "error.message"])
    ELSE IF response.statusCode # 200 THEN Rejected([kind |-> "statusCode", code |-> response.statusCode])
    ELSE IF JSON_parse(response.body).ok THEN Resolved([kind |-> "json", data |-> JSON_parse(response.body).val])
    ELSE Thrown("SyntaxError")

getFileInfo(repoKey, remotefilePath) ==
    /\ Begin([op |-> "getFileInfo", repoKey |-> repoKey, remotePath |-> remotefilePath])
    /\ requests' = <<getFileInfo_request(repoKey, remotefilePath)>>
    /\ promise' = Pending
    /\ inner' = NoInner
    /\ pc' = "getFileInfo"

\* lines 119-122: the separator is added, then getFileInfo is called
getFolderInfo_request(repoKey, remotePath) ==
    getFileInfo_request(repoKey, EnsureTrailingSlash(remotePath))

getFolderInfo(repoKey, remotePath) ==
    /\ Begin([op |-> "getFolderInfo", repoKey |-> repoKey, remotePath |-> remotePath])
    /\ requests' = <<getFolderInfo_request(repoKey, remotePath)>>
    /\ promise' = Pending
    /\ inner' = NoInner
    /\ pc' = "getFileInfo"

\* ----------------------------------------------------------- isPathExists
isPathExists_request(repoKey, remotefilePath) ==
    Request("HEAD", getRequestOptions(ACTIONS_filePath(repoKey, remotefilePath), "none"))

\* a variant without the `case 404`: a missing path falls into the default
isPathExists_cb_no404(response) ==
    IF response.error THEN Thrown("TypeError")
    ELSE IF response.statusCode = 200 THEN Resolved([kind |-> "boolean", bool |-> TRUE])
    ELSE Rejected([kind |-> "statusCode", code |-> response.statusCode])

\* on a transport error `response` is undefined and reading its statusCode throws
isPathExists_cb(response) ==
    IF response.error THEN Thrown("TypeError")
    ELSE IF response.statusCode = 200 THEN Resolved([kind |-> "boolean", bool |-> TRUE])
    ELSE IF response.statusCode = 404 THEN Resolved([kind |-> "boolean", bool |-> FALSE])
    ELSE Rejected([kind |-> "statusCode", code |-> response.statusCode])

isPathExists(repoKey, remotefilePath) ==
    /\ Begin([op |-> "isPathExists", repoKey |-> repoKey, remotePath |-> remotefilePath])
    /\ requests' = <<isPathExists_request(repoKey, remotefilePath)>>
    /\ promise' = Pending
    /\ inner' = NoInner
    /\ pc' = "isPathExists"

\* ------------------------------------------------------------- uploadFile
\* the file to upload: a URL (scheme http or https, any case) or a local path
Sources ==
    {[scheme |-> "http", exists |-> FALSE], [scheme |-> "HTTPS", exists |-> FALSE], [scheme |-> "ftp", exists |-> FALSE], [scheme |-> "", exists |-> TRUE], [scheme |-> "", exists |-> FALSE]}

\* a variant that takes every source for a URL
isRemote_always(fileToUploadPath) == TRUE

\* fileToUploadPath.match(/^https?:\/\//i)
isRemote(fileToUploadPath) == fileToUploadPath.scheme \in {"http", "https", "HTTP", "HTTPS"}

\* a variant with the negation of the flag left out
uploadFile_refuses_forced(fileExists, overwriteFileInServer) == fileExists /\ overwriteFileInServer

\* `fileExists && !overwriteFileInServer`
uploadFile_refuses(fileExists, overwriteFileInServer) == fileExists /\ ~overwriteFileInServer

\* The callback given to .then() is a plain function: Q calls it without a
\* receiver, so in it `this` is the global object, not the ArtifactoryAPI.
ThenCallbackThis == "global"
HasGetRequestOptions(this) == this = "ArtifactoryAPI"

uploadFile_put_request(repoKey, remotefilePath) ==
    Request("PUT", getRequestOptions(ACTIONS_filePath(repoKey, remotefilePath), "none"))

uploadFile_put_cb(response) ==
    IF response.error THEN Rejected([kind |-> "error.message"])
    ELSE IF response.statusCode # 201 THEN Rejected([kind |-> "HTTP Status Code from server was", code |-> response.statusCode])
    ELSE IF JSON_parse(response.body).ok THEN Resolved([kind |-> "json", data |-> JSON_parse(response.body).val])
    ELSE Thrown("SyntaxError")

uploadFile(repoKey, remotefilePath, fileToUploadPath, forceUpload) ==
    /\ Begin([op |-> "uploadFile", repoKey |-> repoKey, remotePath |-> remotefilePath, fileToUploadPath |-> fileToUploadPath, forceUpload |-> forceUpload])
    /\ IF ~isRemote(fileToUploadPath) /\ ~fileToUploadPath.exists
       THEN /\ requests' = <<>>
            /\ inner' = NoInner
            /\ Settle(Rejected([kind |-> "The file to upload does not exist"]))
       ELSE /\ requests' = <<isPathExists_request(repoKey, remotefilePath)>>
            /\ inner' = [NoInner EXCEPT !.isPathExists = Pending]
            /\ promise' = Pending
            /\ pc' = "uploadFile.isPathExists"

\* the function given to isPathExists(...).then() at lines 190-209, followed by
\* the .fail() handler of lines 210-212 when it throws
uploadFile_then(fileExists) ==
    LET overwriteFileInServer == OrFalse(call.forceUpload)
        opened == IF isRemote(call.fileToUploadPath) THEN Append(requests, [method |-> "GET", url |-> <<call.fileToUploadPath.scheme, "://source">>]) ELSE requests
    IN  IF uploadFile_refuses(fileExists, overwriteFileInServer)
        THEN /\ Settle(Rejected([kind |-> "File already exists and forceUpload flag was not provided with a TRUE value."]))
             /\ requests' = requests
        ELSE IF HasGetRequestOptions(ThenCallbackThis)
        THEN /\ requests' = Append(opened, uploadFile_put_request(call.repoKey, call.remotePath))
             /\ pc' = "uploadFile.put"
             /\ promise' = promise
        ELSE /\ requests' = opened
             /\ Settle(Rejected([kind |-> "TypeError"]))

\* the callback of request.head, lines 140-152
isPathExists_callback(response) ==
    /\ pc \in {"isPathExists", "uploadFile.isPathExists"}
    /\ history' = [history EXCEPT !.head = IF response.error THEN 1 ELSE response.statusCode, !.failed = response.error \/ response.statusCode \notin {200, 404}]
    /\ UNCHANGED <<call, disk>>
    /\ LET exists == isPathExists_cb(response)
       IN  IF exists.state = "thrown"
           THEN /\ Crash(exists.value.kind)
                /\ UNCHANGED <<requests, promise, inner>>
           ELSE IF pc = "isPathExists"
           THEN /\ Settle(exists)
                /\ UNCHANGED <<requests, inner, uncaught>>
           ELSE /\ inner' = [inner EXCEPT !.isPathExists = exists]
                /\ uncaught' = uncaught
                /\ IF exists.state = "rejected"
                   THEN Settle(exists) /\ requests' = requests
                   ELSE uploadFile_then(exists.value.bool)

\* ----------------------------------------------------------- createFolder
createFolder_request(repoKey, remotePath) ==
    Request("PUT", getRequestOptions(ACTIONS_filePath(repoKey, EnsureTrailingSlash(remotePath)), "none"))

\* {statusCode, statusMessage, response, url} of lines 310, 339, 389 and 449
StructuredError(response, url) ==
    IF ~BodyTruthy(response.body) THEN Rejected([kind |-> "structured", code |-> response.statusCode, response |-> "<empty>", url |-> url])
    ELSE IF JSON_parse(response.body).ok THEN Rejected([kind |-> "structured", code |-> response.statusCode, response |-> "json", url |-> url])
    ELSE Thrown("SyntaxError")

createFolder_cb(response, url) ==
    IF response.error THEN Rejected([kind |-> "error"])
    ELSE IF response.statusCode = 201
    THEN IF ~BodyTruthy(response.body) THEN Resolved([kind |-> "Created"])
         ELSE IF JSON_parse(response.body).ok THEN Resolved([kind |-> "json", data |-> JSON_parse(response.body).val])
         ELSE Thrown("SyntaxError")
    ELSE StructuredError(response, url)

createFolder(repoKey, remotePath) ==
    /\ Begin([op |-> "createFolder", repoKey |-> repoKey, remotePath |-> remotePath])
    /\ requests' = <<createFolder_request(repoKey, remotePath)>>
    /\ promise' = Pending
    /\ inner' = NoInner
    /\ pc' = "createFolder"

\* ------------------------------------------------- deleteFolder, deleteFile
_deletePath_request(repoKey, remotePath) ==
    Request("DELETE", getRequestOptions(ACTIONS_filePath(repoKey, remotePath), "none"))

\* on a transport error `response` is undefined and reading its statusCode throws
_deletePath_cb(response, url) ==
    IF response.error THEN Thrown("TypeError")
    ELSE IF response.statusCode = 204 THEN Resolved([kind |-> "Deleted"])
    ELSE StructuredError(response, url)

\* lines 353-356: the separator is added, then _deletePath is called
deleteFolder_request(repoKey, remotePath) ==
    _deletePath_request(repoKey, EnsureTrailingSlash(remotePath))

\* the request of _deletePath is in flight
_deletePath ==
    /\ promise' = Pending
    /\ inner' = NoInner
    /\ pc' = "_deletePath"

deleteFolder(repoKey, remotePath) ==
    /\ Begin([op |-> "deleteFolder", repoKey |-> repoKey, remotePath |-> remotePath])
    /\ requests' = <<deleteFolder_request(repoKey, remotePath)>>
    /\ _deletePath

deleteFile(repoKey, remotePath) ==
    /\ Begin([op |-> "deleteFile", repoKey |-> repoKey, remotePath |-> remotePath])
    /\ requests' = <<_deletePath_request(repoKey, remotePath)>>
    /\ _deletePath

\* the callback of request.del, lines 385-391
_deletePath_callback(response) ==
    /\ pc = "_deletePath"
    /\ history' = [history EXCEPT !.failed = response.error \/ response.statusCode # 204]
    /\ UNCHANGED <<call, requests, inner, disk>>
    /\ LET deleted == _deletePath_cb(response, requests[1].url)
       IN  IF deleted.state = "thrown"
           THEN Crash(deleted.value.kind) /\ promise' = promise
           ELSE Settle(deleted) /\ uncaught' = uncaught

\* ------------------------------------------------------ moveItem, _moveItem
\* `dryrun ? {dry:1} : undefined`
_moveItem_request(repoKeySrc, remotePathSrc, repoKeyDst, remotePathDst, dryrun) ==
    Request("POST", getRequestOptions(ACTIONS_moveIem(repoKeySrc, remotePathSrc, repoKeyDst, remotePathDst), IF dryrun = "true" THEN "dry=1" ELSE "none"))

_moveItem_cb(response, url) ==
    IF response.error THEN Rejected([kind |-> "error", url |-> url])
    ELSE IF response.statusCode = 200
    THEN IF ~BodyTruthy(response.body) THEN Resolved([kind |-> "Moved", url |-> url])
         ELSE IF JSON_parse(response.body).ok THEN Resolved([kind |-> "json", data |-> JSON_parse(response.body).val, url |-> url])
         ELSE Thrown("SyntaxError")
    ELSE StructuredError(response, url)

\* a variant that looks at the first character instead of the last
isMoveIntoFolder_first(remotePathDst) == Len(remotePathDst) > 0 /\ remotePathDst[1] = "/"

\* `remotePathDst[remotePathDst.length - 1] === '/'`: move into a folder
isMoveIntoFolder(remotePathDst) == EndsWithSlash(remotePathDst)

\* a variant that behaves as .then(callback): only a resolved promise runs it
finally_runs_as_then(p) == p.state = "resolved"

\* promise.finally(callback): the callback runs once the promise has settled,
\* whether it was resolved or rejected
finally_runs(p) == Settled(p)

moveItem(repoKeySrc, remotePathSrc, repoKeyDst, remotePathDst, dryrun) ==
    /\ Begin([op |-> "moveItem", repoKeySrc |-> repoKeySrc, remotePathSrc |-> remotePathSrc, repoKeyDst |-> repoKeyDst, remotePathDst |-> remotePathDst, dryrun |-> dryrun])
    /\ promise' = Pending
    /\ IF isMoveIntoFolder(remotePathDst)
       THEN /\ requests' = <<createFolder_request(repoKeyDst, remotePathDst)>>
            /\ inner' = [NoInner EXCEPT !.createFolder = Pending]
            /\ pc' = "moveItem.createFolder"
       ELSE /\ requests' = <<_moveItem_request(repoKeySrc, remotePathSrc, repoKeyDst, remotePathDst, dryrun)>>
            /\ inner' = [NoInner EXCEPT !.moves = <<Pending>>]
            /\ pc' = "moveItem._moveItem"

\* -------------------------------------------------------------- moveItems
FilterCbs == {"undefined", "all", "isA"}

\* the caller's filter: "all" accepts every name, "isA" the name "a"
filterCb_call(filterCb, fileName) == filterCb = "all" \/ (filterCb = "isA" /\ fileName = <<"a">>)

\* item.uri.lastIndexOf('/'), 1-based; 0 when there is none
lastIndexOf(uri, c) ==
    IF \E i \in 1..Len(uri) : uri[i] = c
    THEN CHOOSE i \in 1..Len(uri) : uri[i] = c /\ \A j \in (i + 1)..Len(uri) : uri[j] # c
    ELSE 0

\* lines 487-491: the file name is what follows the last '/'
fileNameOf(uri) ==
    IF lastIndexOf(uri, "/") > 0 THEN SubSeq(uri, lastIndexOf(uri, "/") + 1, Len(uri)) ELSE uri

\* a variant without the `!item.folder` test
isFileToMove_folders(item, filterCb) ==
    /\ item.uri # <<>>
    /\ filterCb # "undefined"
    /\ filterCb_call(filterCb, fileNameOf(item.uri))

\* lines 484-496
isFileToMove(item, filterCb) ==
    /\ ~item.folder
    /\ item.uri # <<>>
    /\ filterCb # "undefined"
    /\ filterCb_call(filterCb, fileNameOf(item.uri))

RECURSIVE filesToMove(_, _)
filesToMove(children, filterCb) ==
    IF children = <<>> THEN <<>>
    ELSE (IF isFileToMove(Head(children), filterCb) THEN <<Head(children).uri>> ELSE <<>>) \o filesToMove(Tail(children), filterCb)

\* `!result.children`: only an absent property is falsy, an empty array is not
hasNoChildren(result) == ~result.hasChildren

\* a variant in which a later rejection replaces an earlier one
Q_all_last(all, promises, settling) ==
    IF settling.state = "rejected" THEN settling
    ELSE IF all.state # "pending" THEN all
    ELSE IF \A i \in DOMAIN promises : promises[i].state = "resolved" THEN Resolved([kind |-> "list", list |-> [i \in DOMAIN promises |-> promises[i].value]])
    ELSE all

\* Q.all(promises) as one more promise of the list settles: the first rejection
\* rejects it, the last fulfilment resolves it with the list of the values
Q_all(all, promises, settling) ==
    IF all.state # "pending" THEN all
    ELSE IF settling.state = "rejected" THEN settling
    ELSE IF \A i \in DOMAIN promises : promises[i].state = "resolved" THEN Resolved([kind |-> "list", list |-> [i \in DOMAIN promises |-> promises[i].value]])
    ELSE all

moveItems(repoKeySrc, remotePathSrc, filterCb, repoKeyDst, remotePathDst, dryrun) ==
    /\ Begin([op |-> "moveItems", repoKeySrc |-> repoKeySrc, remotePathSrc |-> EnsureTrailingSlash(remotePathSrc), filterCb |-> filterCb, repoKeyDst |-> repoKeyDst, remotePathDst |-> EnsureTrailingSlash(remotePathDst), dryrun |-> dryrun, given |-> <<remotePathSrc, remotePathDst>>])
    /\ requests' = <<getFolderInfo_request(repoKeySrc, EnsureTrailingSlash(remotePathSrc))>>
    /\ promise' = Pending
    /\ inner' = [NoInner EXCEPT !.getFileInfo = Pending]
    /\ pc' = "moveItems.getFolderInfo"

\* the function given to createFolder(...).finally() at lines 480-512
moveItems_finally(result, created) ==
    LET uris == filesToMove(result.children, call.filterCb)
        posts == [i \in DOMAIN uris |-> _moveItem_request(call.repoKeySrc, call.remotePathSrc \o uris[i], call.repoKeyDst, call.remotePathDst, call.dryrun)]
    IN  /\ requests' = requests \o posts
        /\ IF uris = <<>>
           THEN /\ Settle(Q_all(Pending, <<>>, Pending))
                /\ inner' = [inner EXCEPT !.createFolder = created, !.filesToMove = uris]
           ELSE /\ pc' = "moveItems._moveItem"
                /\ promise' = promise
                /\ inner' = [inner EXCEPT !.createFolder = created, !.filesToMove = uris, !.moves = [i \in DOMAIN uris |-> Pending]]

\* the callback of request.put: lines 198-209 for an upload, lines 333-341 for
\* createFolder, followed by what waits for createFolder's promise (the
\* .finally() of lines 418-424 and of lines 480-512)
request_put_callback(response) ==
    /\ pc \in {"uploadFile.put", "createFolder", "moveItem.createFolder", "moveItems.createFolder"}
    /\ history' = [history EXCEPT !.put = IF pc # "uploadFile.put" THEN @ ELSE IF response.error THEN 1 ELSE response.statusCode,
                                   !.failed = pc \in {"uploadFile.put", "createFolder"} /\ (response.error \/ response.statusCode # 201)]
    /\ UNCHANGED <<call, disk>>
    /\ LET put == IF pc = "uploadFile.put" THEN uploadFile_put_cb(response) ELSE createFolder_cb(response, requests[Len(requests)].url)
       IN  IF put.state = "thrown"
           THEN /\ Crash(put.value.kind)
                /\ UNCHANGED <<requests, promise, inner>>
           ELSE /\ uncaught' = uncaught
                /\ IF pc \in {"uploadFile.put", "createFolder"}
                   THEN /\ Settle(put)
                        /\ UNCHANGED <<requests, inner>>
                   ELSE IF ~finally_runs(put)
                   THEN /\ pc' = "hung"
                        /\ inner' = [inner EXCEPT !.createFolder = Outcome(put)]
                        /\ UNCHANGED <<requests, promise>>
                   ELSE IF pc = "moveItem.createFolder"
                   THEN /\ requests' = Append(requests, _moveItem_request(call.repoKeySrc, call.remotePathSrc, call.repoKeyDst, call.remotePathDst, call.dryrun))
                        /\ inner' = [inner EXCEPT !.createFolder = Outcome(put), !.moves = <<Pending>>]
                        /\ pc' = "moveItem._moveItem"
                        /\ promise' = promise
                   ELSE moveItems_finally(inner.getFileInfo.value.data, Outcome(put))

\* the callback of request.post, lines 443-451, for the i-th move in flight,
\* followed by what waits for its promise (lines 419-423, lines 507-511)
_moveItem_callback(i, response) ==
    /\ pc \in {"moveItem._moveItem", "moveItems._moveItem"}
    /\ i \in DOMAIN inner.moves
    /\ inner.moves[i].state = "pending"
    /\ UNCHANGED <<call, requests, disk>>
    /\ LET moved == _moveItem_cb(response, requests[Len(requests) - Len(inner.moves) + i].url)
           moves == [inner.moves EXCEPT ![i] = moved]
       IN  IF moved.state = "thrown"
           THEN /\ Crash(moved.value.kind)
                /\ history' = [history EXCEPT !.failed = @ \/ response.statusCode # 200]
                /\ UNCHANGED <<promise, inner>>
           ELSE /\ uncaught' = uncaught
                /\ inner' = [inner EXCEPT !.moves = moves]
                /\ history' = [history EXCEPT !.firstRejected = IF @ = 0 /\ moved.state = "rejected" THEN i ELSE @,
                                               !.failed = @ \/ response.error \/ response.statusCode # 200]
                /\ IF pc = "moveItem._moveItem"
                   THEN Settle(moved)
                   ELSE /\ promise' = Q_all(promise, moves, moved)
                        /\ pc' = IF \A j \in DOMAIN moves : Settled(moves[j]) THEN "settled" ELSE pc

\* the callback of request.get in getFileInfo, lines 96-107, followed by what
\* waits for its promise (lines 249-264 in downloadFile, 475-515 in moveItems)
getFileInfo_callback(response) ==
    /\ pc \in {"getFileInfo", "downloadFile.getFileInfo", "moveItems.getFolderInfo"}
    /\ response \in ResponsesOf(IF pc = "moveItems.getFolderInfo" THEN FolderInfos ELSE FileInfos)
    /\ history' = [history EXCEPT !.failed = response.error \/ response.statusCode # 200]
    /\ UNCHANGED <<call, disk>>
    /\ LET info == getFileInfo_cb(response)
       IN  IF info.state = "thrown"
           THEN /\ Crash(info.value.kind)
                /\ UNCHANGED <<requests, promise, inner>>
           ELSE /\ uncaught' = uncaught
                /\ IF pc = "getFileInfo"
                   THEN /\ Settle(info)
                        /\ UNCHANGED <<requests, inner>>
                   ELSE IF info.state = "rejected"
                   THEN /\ Settle(info)
                        /\ inner' = [inner EXCEPT !.getFileInfo = info]
                        /\ requests' = requests
                   ELSE IF pc = "downloadFile.getFileInfo"
                   THEN /\ pc' = "downloadFile.md5File"
                        /\ inner' = [inner EXCEPT !.getFileInfo = info]
                        /\ UNCHANGED <<requests, promise>>
                   ELSE IF hasNoChildren(info.value.data)
                   THEN /\ Settle(Resolved([kind |-> "No files in", path |-> call.remotePathSrc]))
                        /\ inner' = [inner EXCEPT !.getFileInfo = info]
                        /\ requests' = requests
                   ELSE /\ requests' = Append(requests, createFolder_request(call.repoKeyDst, call.remotePathDst))
                        /\ inner' = [inner EXCEPT !.getFileInfo = info, !.createFolder = Pending]
                        /\ pc' = "moveItems.createFolder"
                        /\ promise' = promise

\* ----------------------------------------------- downloadFile, downloadFolder
\* the digest md5File computes of a file's content
md5File_sum(content) == IF content = "c1" THEN "d1" ELSE "d2"

\* a variant that accepts any digest
checksumMatches_any(sum, fileInfo) == TRUE

\* `sum === fileInfo.checksums.md5`
checksumMatches(sum, fileInfo) == sum = fileInfo.md5

\* downloadFile declares no variable `options` (lines 226-230): reading it at
\* line 258 throws a ReferenceError
OptionsInScope == FALSE

downloadFile(repoKey, remotefilePath, destinationDirExists, checkChecksum) ==
    /\ Begin([op |-> "downloadFile", repoKey |-> repoKey, remotePath |-> remotefilePath, destinationDirExists |-> destinationDirExists, checkChecksum |-> checkChecksum])
    /\ inner' = NoInner
    /\ IF ~destinationDirExists
       THEN /\ requests' = <<>>
            /\ Settle(Rejected([kind |-> "The destination folder does not exist."]))
       ELSE /\ requests' = <<Request("GET", getRequestOptions(ACTIONS_filePath(repoKey, remotefilePath), "none"))>>
            /\ promise' = Pending
            /\ pc' = "downloadFile.response"

\* `archiveType || 'zip'`
downloadFolder(repoKey, remotePath, destinationDirExists, archiveType) ==
    /\ Begin([op |-> "downloadFolder", repoKey |-> repoKey, remotePath |-> remotePath, destinationDirExists |-> destinationDirExists, archiveType |-> archiveType])
    /\ inner' = NoInner
    /\ IF ~destinationDirExists
       THEN /\ requests' = <<>>
            /\ Settle(Rejected([kind |-> "The destination folder does not exist."]))
       ELSE /\ requests' = <<Request("GET", getRequestOptions(ACTIONS_downloadFolder(repoKey, remotePath), IF archiveType = "undefined" THEN "archiveType=zip" ELSE "archiveType=" \o archiveType))>>
            /\ promise' = Pending
            /\ pc' = "downloadFolder.response"

\* the 'response' listener of lines 244-272
downloadFile_response(statusCode) ==
    /\ pc = "downloadFile.response"
    /\ history' = [history EXCEPT !.get = statusCode, !.failed = statusCode # 200]
    /\ UNCHANGED <<call, requests, inner, uncaught>>
    /\ IF statusCode = 200
       THEN /\ disk' = [state |-> "writing"]
            /\ pc' = "downloadFile.pipe"
            /\ promise' = promise
       ELSE /\ disk' = disk
            /\ Settle(Rejected([kind |-> "Server returned", code |-> statusCode]))

\* the 'finish' listener of lines 247-268
downloadFile_finish(content) ==
    /\ pc = "downloadFile.pipe"
    /\ disk' = [state |-> "written", content |-> content]
    /\ UNCHANGED <<call, uncaught, history>>
    /\ IF OrFalse(call.checkChecksum)
       THEN /\ requests' = Append(requests, getFileInfo_request(call.repoKey, call.remotePath))
            /\ inner' = [inner EXCEPT !.getFileInfo = Pending]
            /\ pc' = "downloadFile.getFileInfo"
            /\ promise' = promise
       ELSE /\ Settle(Resolved([kind |-> "Download was SUCCESSFUL"]))
            /\ UNCHANGED <<requests, inner>>

\* the callback of md5File, lines 250-261
md5File_callback(err) ==
    /\ pc = "downloadFile.md5File"
    /\ disk.state = "written"
    /\ UNCHANGED <<call, requests, inner, disk, history>>
    /\ LET fileInfo == inner.getFileInfo.value.data
           sum == md5File_sum(disk.content)
       IN  IF err
           THEN Settle(Rejected([kind |-> "Error while calculating MD5"])) /\ uncaught' = uncaught
           ELSE IF ~fileInfo.hasChecksums
           THEN Crash("TypeError") /\ promise' = promise
           ELSE IF checksumMatches(sum, fileInfo)
           THEN Settle(Resolved([kind |-> "Download was SUCCESSFUL even checking expected checksum MD5", md5 |-> fileInfo.md5])) /\ uncaught' = uncaught
           ELSE IF OptionsInScope
           THEN Settle(Rejected([kind |-> "Checksum (MD5) validation failed", expected |-> fileInfo.md5, actual |-> sum])) /\ uncaught' = uncaught
           ELSE Crash("ReferenceError") /\ promise' = promise

\* the 'response' listener of lines 303-312
downloadFolder_response(response) ==
    /\ pc = "downloadFolder.response"
    /\ ~response.error
    /\ history' = [history EXCEPT !.failed = response.statusCode # 200]
    /\ UNCHANGED <<call, requests, inner>>
    /\ IF response.statusCode = 200
       THEN /\ disk' = [state |-> "writing"]
            /\ pc' = "downloadFolder.pipe"
            /\ UNCHANGED <<promise, uncaught>>
       ELSE /\ disk' = disk
            /\ LET failed == StructuredError(response, requests[1].url)
               IN  IF failed.state = "thrown"
                   THEN Crash(failed.value.kind) /\ promise' = promise
                   ELSE Settle(failed) /\ uncaught' = uncaught

\* the 'finish' listener of lines 306-308
downloadFolder_finish(content) ==
    /\ pc = "downloadFolder.pipe"
    /\ disk' = [state |-> "written", content |-> content]
    /\ Settle(Resolved([kind |-> "Download was SUCCESSFUL"]))
    /\ UNCHANGED <<call, requests, inner, uncaught, history>>

\* An 'error' event of the GET request or of the write stream of a download:
\* the operations register no 'error' listener, so the emitter throws.
unhandled_error_event ==
    /\ pc \in {"downloadFile.response", "downloadFile.pipe", "downloadFolder.response", "downloadFolder.pipe"}
    /\ Crash("Unhandled 'error' event")
    /\ history' = [history EXCEPT !.failed = TRUE]
    /\ UNCHANGED <<call, requests, promise, inner, disk>>

\* ------------------------------------------------------------- the client
\* the caller is done with the call (or the process was restarted after an
\* uncaught exception) and the client is used again
Return ==
    /\ pc \in {"settled", "crashed"}
    /\ pc' = "idle"
    /\ call' = NoCall
    /\ requests' = <<>>
    /\ promise' = NotStarted
    /\ inner' = NoInner
    /\ uncaught' = "none"
    /\ disk' = NoDisk
    /\ history' = NoHistory

\* arguments of the move operations
SrcDirs == {<<"a">>, <<"a", "/">>}
Dryruns == {"undefined", "true"}
MoveItemsDirs ==
    {[src |-> <<"a">>, dst |-> <<"a", "/">>, dryrun |-> "undefined"], [src |-> <<"a", "/">>, dst |-> <<"a">>, dryrun |-> "true"]}
\* what the server answers to a move: no answer, 200 or 404, with any body
MoveResponses ==
    {r \in ResponsesOf({EmptyObject}) : r.error \/ r.statusCode \in {200, 404}}

Next ==
    \/ \E repoKey \in Repos, remotePath \in Paths : getFileInfo(repoKey, remotePath)
    \/ \E repoKey \in Repos, remotePath \in Paths : getFolderInfo(repoKey, remotePath)
    \/ \E repoKey \in Repos, remotePath \in Paths : isPathExists(repoKey, remotePath)
    \/ \E repoKey \in Repos, remotePath \in Paths, src \in Sources, forceUpload \in Tristate : uploadFile(repoKey, remotePath, src, forceUpload)
    \/ \E repoKey \in Repos, remotePath \in Paths, dir \in BOOLEAN, checkChecksum \in Tristate : downloadFile(repoKey, remotePath, dir, checkChecksum)
    \/ \E repoKey \in Repos, remotePath \in Paths, dir \in BOOLEAN, archiveType \in {"undefined", "tar"} : downloadFolder(repoKey, remotePath, dir, archiveType)
    \/ \E repoKey \in Repos, remotePath \in Paths : createFolder(repoKey, remotePath)
    \/ \E repoKey \in Repos, remotePath \in Paths : deleteFolder(repoKey, remotePath)
    \/ \E repoKey \in Repos, remotePath \in Paths : deleteFile(repoKey, remotePath)
    \/ \E repoKeyDst \in Repos, remotePathSrc \in SrcDirs, remotePathDst \in Paths, dryrun \in Dryruns : moveItem("r1", remotePathSrc, repoKeyDst, remotePathDst, dryrun)
    \/ \E dirs \in MoveItemsDirs, filterCb \in FilterCbs : moveItems("r1", dirs.src, filterCb, "r2", dirs.dst, dirs.dryrun)
    \/ \E response \in ResponsesOf({EmptyObject}) : isPathExists_callback(response)
    \/ \E response \in ResponsesOf(FolderInfos \cup FileInfos) : getFileInfo_callback(response)
    \/ \E response \in ResponsesOf({EmptyObject}) : request_put_callback(response)
    \/ \E response \in ResponsesOf({EmptyObject}) : _deletePath_callback(response)
    \/ \E i \in 1..MaxChildren, response \in MoveResponses : _moveItem_callback(i, response)
    \/ \E statusCode \in Statuses : downloadFile_response(statusCode)
    \/ \E content \in Contents : downloadFile_finish(content)
    \/ \E err \in BOOLEAN : md5File_callback(err)
    \/ \E response \in ResponsesOf({EmptyObject}) : downloadFolder_response(response)
    \/ \E content \in Contents : downloadFolder_finish(content)
    \/ unhandled_error_event
    \/ Return

Spec == Init /\ [][Next]_vars

\* =================================================================
\* Properties
\* =================================================================
Methods(method) == SelectSeq(requests, LAMBDA r : r.method = method)
LocalSourceExists == call.fileToUploadPath.scheme = "" /\ call.fileToUploadPath.exists
AlreadyExists == [kind |-> "File already exists and forceUpload flag was not provided with a TRUE value."]

\* C1: uploadFile with forceUpload=true and an existing local source, once the
\* existence check was answered 200, has issued exactly one PUT; the promise
\* stays pending until that PUT is answered and is resolved with the parsed
\* creation info when the answer is 201.
C1_ForcedUploadPuts ==
    (call.op = "uploadFile" /\ call.forceUpload = "true" /\ LocalSourceExists /\ history.head = 200)
        => /\ Len(Methods("PUT")) = 1
           /\ history.put = 0 => promise = Pending
           /\ history.put = 201 /\ uncaught = "none" => promise.state = "resolved" /\ promise.value.kind = "json"

\* C2: uploadFile with forceUpload false or omitted, once the existence check
\* was answered 200, is rejected with the already-exists failure, and no PUT
\* request is issued at any point of such a call.
C2_ExistingNotOverwritten ==
    (call.op = "uploadFile" /\ call.forceUpload \in {"false", "undefined"})
        => /\ history.head = 200 => promise = Rejected(AlreadyExists) /\ pc = "settled"
           /\ history.head \in {0, 200} => Methods("PUT") = <<>>

C2_Witness ==
    /\ call.op = "uploadFile" /\ call.forceUpload = "undefined" /\ history.head = 200
    /\ promise = Rejected(AlreadyExists) /\ Len(requests) = 1

\* the verified download has compared the digests: the file is written, the
\* file info arrived with its checksums and md5File has answered with a digest
DigestsCompared ==
    /\ call.op = "downloadFile" /\ call.checkChecksum = "true"
    /\ disk.state = "written"
    /\ inner.getFileInfo.state = "resolved" /\ inner.getFileInfo.value.data.hasChecksums
    /\ pc \in {"settled", "crashed"}
    /\ promise # Rejected([kind |-> "Error while calculating MD5"])

\* C3: downloadFile with verifyChecksum=true whose written file has an MD5
\* other than the server-reported checksums.md5 is rejected with a
\* checksum-mismatch failure naming the expected and the actual digest, and
\* the written file is left on disk.
C3_MismatchRejects ==
    (DigestsCompared /\ md5File_sum(disk.content) # inner.getFileInfo.value.data.md5)
        => /\ promise.state = "rejected"
           /\ promise.value.kind = "Checksum (MD5) validation failed"
           /\ promise.value.expected = inner.getFileInfo.value.data.md5
           /\ promise.value.actual = md5File_sum(disk.content)
           /\ disk.state = "written"

\* C4: the existence check issues one HEAD of /repo/path and, once a response
\* has arrived, is resolved with true iff the status is 200, resolved with
\* false iff it is 404, and rejected iff it is any other status.
C4_ExistsByStatus ==
    call.op = "isPathExists"
        => /\ requests = <<[method |-> "HEAD", url |-> <<url_, "/", call.repoKey, "/">> \o call.remotePath, Authorization |-> <<"Basic ", basicHttpAuth_>>, strictSSL |-> FALSE, qs |-> "none"]>>
           /\ history.head \in Statuses
                => /\ (promise = Resolved([kind |-> "boolean", bool |-> TRUE])) <=> (history.head = 200)
                   /\ (promise = Resolved([kind |-> "boolean", bool |-> FALSE])) <=> (history.head = 404)
                   /\ (promise.state = "rejected") <=> (history.head \notin {200, 404})
                   /\ promise.state \in {"resolved", "rejected"}

C4_Witness ==
    /\ call.op = "isPathExists" /\ call.repoKey = "r2" /\ call.remotePath = <<"a", "/">>
    /\ history.head = 404 /\ promise.state = "resolved" /\ ~promise.value.bool

\* C5: moveItems whose source folder lists zero children (the property is
\* absent or the list is empty) issues no request after the listing and is
\* resolved at once with the 'No files' message.
C5_NoChildrenShortCircuit ==
    (/\ call.op = "moveItems"
     /\ inner.getFileInfo.state = "resolved"
     /\ ~inner.getFileInfo.value.data.hasChildren \/ inner.getFileInfo.value.data.children = <<>>)
        => /\ Len(requests) = 1
           /\ promise = Resolved([kind |-> "No files in", path |-> call.remotePathSrc])

\* the children of the listing that moveItems is to move: entries with a uri
\* that are not folders and whose base file name the caller's filter accepts
Suffixes(uri) == {SubSeq(uri, k, Len(uri)) : k \in 1..(Len(uri) + 1)}
BaseFileName(uri) ==
    CHOOSE s \in Suffixes(uri) : (\A i \in DOMAIN s : s[i] # "/") /\ (Len(s) = Len(uri) \/ uri[Len(uri) - Len(s)] = "/")
ToBeMoved(item) ==
    /\ ~item.folder
    /\ item.uri # <<>>
    /\ call.filterCb # "undefined"
    /\ filterCb_call(call.filterCb, BaseFileName(item.uri))
MoveUrl(srcRepo, src, dstRepo, dst) ==
    <<url_, "/api/move/", srcRepo, "/">> \o src \o <<"?to=/", dstRepo, "/">> \o dst

\* C6: moveItems issues, once the pre-creation has settled, exactly one move
\* request per child that is not a folder and whose base file name satisfies
\* filterFn, in the order of the listing, and no move request for any other
\* child nor before that; the listing request carries no filter.
C6_MovesTheFilteredFiles ==
    call.op = "moveItems"
        => LET expected == IF Settled(inner.createFolder) THEN SelectSeq(inner.getFileInfo.value.data.children, ToBeMoved) ELSE <<>>
               posts == Methods("POST")
           IN  /\ requests[1].method = "GET" /\ requests[1].qs = "none"
               /\ Len(posts) = Len(expected)
               /\ \A i \in DOMAIN posts : posts[i].url = MoveUrl(call.repoKeySrc, call.remotePathSrc \o expected[i].uri, call.repoKeyDst, call.remotePathDst)

C6_Witness ==
    /\ call.op = "moveItems" /\ call.filterCb = "isA"
    /\ inner.getFileInfo.state = "resolved"
    /\ inner.getFileInfo.value.data.children = <<[uri |-> <<"/", "a">>, folder |-> FALSE], [uri |-> <<"b">>, folder |-> FALSE]>>
    /\ Len(Methods("POST")) = 1

LacksSeparator(p) == p = <<>> \/ p[Len(p)] # "/"
PathUrl(repo, p) == <<url_, "/", repo, "/">> \o p

\* C8: moveItem with a destination ending in a separator first sends the
\* pre-creation PUT of the destination folder and sends the move POST only
\* once that PUT's promise has settled; with a destination not ending in a
\* separator it sends the move POST alone and never a PUT.
C8_PreCreationBeforeMove ==
    call.op = "moveItem"
        => LET move == MoveUrl(call.repoKeySrc, call.remotePathSrc, call.repoKeyDst, call.remotePathDst)
           IN  IF LacksSeparator(call.remotePathDst)
               THEN /\ Len(requests) = 1
                    /\ requests[1].method = "POST" /\ requests[1].url = move
               ELSE /\ requests[1].method = "PUT" /\ requests[1].url = PathUrl(call.repoKeyDst, call.remotePathDst)
                    /\ Len(requests) <= 2
                    /\ Len(requests) = 2 => /\ requests[2].method = "POST" /\ requests[2].url = move
                                            /\ Settled(inner.createFolder)

C8_Witness ==
    /\ call.op = "moveItem" /\ call.remotePathDst = <<"a", "/">>
    /\ Len(requests) = 2 /\ requests[2].method = "POST"
    /\ inner.createFolder.state = "resolved"

StorageUrl(repo, p) == <<url_, "/api/storage/", repo, "/">> \o p
\* the same folder named the other way: with the separator when the path
\* lacks it, without it when the path carries exactly one
Twin(p) == IF LacksSeparator(p) THEN p \o <<"/">> ELSE SubSeq(p, 1, Len(p) - 1)

\* C10: getFolderInfo, deleteFolder and createFolder request the input path
\* with a separator added exactly when it lacks one, so that a path lacking
\* the separator and the same path carrying it give the identical request;
\* deleteFile and getFileInfo request the path as given.
C10_TrailingSeparator ==
    LET p == call.remotePath
        folder == IF LacksSeparator(p) THEN p \o <<"/">> ELSE p
        sameFolder == LacksSeparator(p) \/ LacksSeparator(Twin(p))
    IN  /\ call.op = "getFolderInfo"
            => /\ requests[1].url = StorageUrl(call.repoKey, folder)
               /\ sameFolder => requests[1] = getFolderInfo_request(call.repoKey, Twin(p))
        /\ call.op = "deleteFolder"
            => /\ requests[1].url = PathUrl(call.repoKey, folder)
               /\ sameFolder => requests[1] = deleteFolder_request(call.repoKey, Twin(p))
        /\ call.op = "createFolder"
            => /\ requests[1].url = PathUrl(call.repoKey, folder)
               /\ sameFolder => requests[1] = createFolder_request(call.repoKey, Twin(p))
        /\ call.op = "getFileInfo" => requests[1].url = StorageUrl(call.repoKey, p)
        /\ call.op = "deleteFile" => requests[1].url = PathUrl(call.repoKey, p)

C10_Witness ==
    /\ call.op = "deleteFolder" /\ call.remotePath = <<"a", "/">>
    /\ requests[1].method = "DELETE"
    /\ requests[1] = deleteFolder_request(call.repoKey, <<"a">>)

\* C11: downloadFile is resolved only after the GET was answered 200 and the
\* body has been written to the destination; with verifyChecksum=true only
\* after the file info arrived and the MD5 of the written file equals its
\* checksums.md5, with a success message carrying that digest; a GET answered
\* with another status rejects the promise, which is then never resolved.
C11_SuccessAfterWriteAndVerify ==
    call.op = "downloadFile"
        => /\ promise.state = "resolved"
                => /\ history.get = 200
                   /\ disk.state = "written"
                   /\ IF call.checkChecksum = "true"
                      THEN /\ Len(requests) = 2 /\ requests[2].url = StorageUrl(call.repoKey, call.remotePath)
                           /\ inner.getFileInfo.state = "resolved"
                           /\ inner.getFileInfo.value.data.hasChecksums
                           /\ inner.getFileInfo.value.data.md5 = md5File_sum(disk.content)
                           /\ promise.value = [kind |-> "Download was SUCCESSFUL even checking expected checksum MD5", md5 |-> md5File_sum(disk.content)]
                      ELSE /\ Len(requests) = 1
                           /\ promise.value = [kind |-> "Download was SUCCESSFUL"]
           /\ history.get \in Statuses \ {200}
                => /\ promise = Rejected([kind |-> "Server returned", code |-> history.get])
                   /\ disk.state = "absent"

C11_Witness ==
    /\ call.op = "downloadFile" /\ call.checkChecksum = "true"
    /\ history.get = 200 /\ disk = [state |-> "written", content |-> "c2"]
    /\ promise = Resolved([kind |-> "Download was SUCCESSFUL even checking expected checksum MD5", md5 |-> "d2"])

\* C12: uploadFile whose source is a local path that does not exist, and
\* downloadFile and downloadFolder whose destination has no parent directory,
\* are rejected with the local failure and have issued no HTTP request.
C12_LocalFailureBeforeNetwork ==
    /\ (call.op = "uploadFile" /\ call.fileToUploadPath.scheme \notin {"http", "https", "HTTP", "HTTPS"} /\ ~call.fileToUploadPath.exists)
            => requests = <<>> /\ promise = Rejected([kind |-> "The file to upload does not exist"])
    /\ (call.op \in {"downloadFile", "downloadFolder"} /\ ~call.destinationDirExists)
            => requests = <<>> /\ promise = Rejected([kind |-> "The destination folder does not exist."])

C12_Witness ==
    /\ call.op = "uploadFile" /\ call.fileToUploadPath = [scheme |-> "", exists |-> FALSE]
    /\ pc = "settled" /\ promise.state = "rejected" /\ requests = <<>>

\* C13: once a request of the operation itself has ended with a transport
\* error or with an unexpected status, the promise the operation returned is
\* rejected (the handler that ends the request is the one that rejects, so a
\* promise still pending after it stays pending).
C13_FailureIsRejected ==
    history.failed => promise.state = "rejected"

\* C14: when dryrun is true, every request moveItem or moveItems has issued is
\* a GET (the folder listing) or a move POST carrying dry=1.
C14_DryRunMutatesNothing ==
    (call.op \in {"moveItem", "moveItems"} /\ call.dryrun = "true")
        => \A i \in DOMAIN requests :
                \/ requests[i].method = "GET"
                \/ requests[i].method = "POST" /\ requests[i].qs = "dry=1"

=============================================================================
